---- MODULE Spec2Model ----
(***************************************************************************)
(* Model of app/services/agent.py: the reply pipeline generate_response   *)
(* and the two PropertyFindingAgent methods it drives,                     *)
(* interpret_user_query and find_properties.  The text-generation client, *)
(* the extraction client and the agent constructor are external: each     *)
(* call either throws or returns a value chosen from a bounded set.       *)
(***************************************************************************)
EXTENDS Integers, Sequences, FiniteSets, TLC

(* ---------------------------- bounds ----------------------------------- *)

\* longest inbound message, in characters
MaxMsgLen == 1
\* longest interpreter output, in lexemes (see Lexemes)
MaxContentLen == 4
\* most property records in one extraction result
MaxProps == 1
\* longest summarizer output, in characters
MaxSumLen == 1

(* ---------------------------- values ----------------------------------- *)

\* Python values that occur as dictionary values and call arguments:
\* None, a string (sequence of characters) or a number.
None == [t |-> "null", s |-> <<>>, n |-> 0]
Str(chars) == [t |-> "str", s |-> chars, n |-> 0]
Num(k) == [t |-> "num", s |-> <<>>, n |-> k]

\* Python truth value: None, "" and 0 are falsy.
Truthy(v) ==
    CASE v.t = "null" -> FALSE
      [] v.t = "str"  -> Len(v.s) > 0
      [] OTHER        -> v.n # 0

EmptyDict == [k \in {} |-> None]

\* dict.get(key, default): the default is used only when the key is absent.
DictGet(d, key, default) == IF key \in DOMAIN d THEN d[key] ELSE default

DictPut(d, key, val) ==
    [k \in (DOMAIN d) \cup {key} |-> IF k = key THEN val ELSE d[k]]

SetMax(S) == CHOOSE x \in S : \A y \in S : y <= x
SetMin(S) == CHOOSE x \in S : \A y \in S : x <= y

(* ------------------ the interpreter's output text ---------------------- *)

\* The interpreter's output is a sequence of lexemes, each standing for the
\* literal text given by Text below; every lexeme ends in a blank.
Lexemes ==
    {"LB", "RB", "CITY_PUNE", "CITY_NULL", "PLAIN_CITY",
     "C_PRICE_NULL", "C_PRICE_2", "C_CAT_NULL", "C_TYPE_NULL"}

Pune == <<"P", "u", "n", "e">>
Delhi == <<"D", "e", "l", "h", "i">>

Text(lx) ==
    CASE lx = "LB" -> <<"{", " ">>
      [] lx = "RB" -> <<"}", " ">>
      \* "city":"Pune"
      [] lx = "CITY_PUNE" ->
            <<"\"", "c", "i", "t", "y", "\"", ":", "\"">> \o Pune \o <<"\"", " ">>
      \* "city":null
      [] lx = "CITY_NULL" ->
            <<"\"", "c", "i", "t", "y", "\"", ":", "n", "u", "l", "l", " ">>
      \* City: Delhi
      [] lx = "PLAIN_CITY" -> <<"C", "i", "t", "y", ":", " ">> \o Delhi \o <<" ">>
      \* ,"max_price":null
      [] lx = "C_PRICE_NULL" ->
            <<",", "\"", "m", "a", "x", "_", "p", "r", "i", "c", "e", "\"", ":",
              "n", "u", "l", "l", " ">>
      \* ,"max_price":2
      [] lx = "C_PRICE_2" ->
            <<",", "\"", "m", "a", "x", "_", "p", "r", "i", "c", "e", "\"", ":",
              "2", " ">>
      \* ,"property_category":null
      [] lx = "C_CAT_NULL" ->
            <<",", "\"", "p", "r", "o", "p", "e", "r", "t", "y", "_",
              "c", "a", "t", "e", "g", "o", "r", "y", "\"", ":",
              "n", "u", "l", "l", " ">>
      \* ,"property_type":null
      [] lx = "C_TYPE_NULL" ->
            <<",", "\"", "p", "r", "o", "p", "e", "r", "t", "y", "_",
              "t", "y", "p", "e", "\"", ":", "n", "u", "l", "l", " ">>

RECURSIVE Flatten(_)
Flatten(content) ==
    IF content = <<>> THEN <<>>
    ELSE Text(Head(content)) \o Flatten(Tail(content))

SeqsUpTo(S, n) == UNION {[1..k -> S] : k \in 0..n}

Contents == SeqsUpTo(Lexemes, MaxContentLen)

\* re.search(r'({.*})', content, re.DOTALL): from the first "{" to the last
\* "}" after it; <<>> when there is no such pair.
BraceMatch(content) ==
    LET lbs == {i \in 1..Len(content) : content[i] = "LB"}
    IN  IF lbs = {} THEN <<>>
        ELSE LET first == SetMin(lbs)
                 rbs == {j \in (first + 1)..Len(content) : content[j] = "RB"}
             IN  IF rbs = {} THEN <<>>
                 ELSE SubSeq(content, first, SetMax(rbs))

\* The key and value each member lexeme denotes.
Member(lx) ==
    CASE lx = "CITY_PUNE"    -> [key |-> "city", val |-> Str(Pune)]
      [] lx = "CITY_NULL"    -> [key |-> "city", val |-> None]
      [] lx = "C_PRICE_NULL" -> [key |-> "max_price", val |-> None]
      [] lx = "C_PRICE_2"    -> [key |-> "max_price", val |-> Num(2)]
      [] lx = "C_CAT_NULL"   -> [key |-> "property_category", val |-> None]
      [] lx = "C_TYPE_NULL"  -> [key |-> "property_type", val |-> None]

FirstMembers == {"CITY_PUNE", "CITY_NULL"}
CommaMembers == {"C_PRICE_NULL", "C_PRICE_2", "C_CAT_NULL", "C_TYPE_NULL"}

\* json.loads accepts the matched text iff it is one object: "{", then
\* nothing or a member followed by comma-led members, then "}".
JsonValid(m) ==
    /\ Len(m) >= 2
    /\ m[1] = "LB"
    /\ m[Len(m)] = "RB"
    /\ \A i \in 2..(Len(m) - 1) :
          IF i = 2 THEN m[i] \in FirstMembers ELSE m[i] \in CommaMembers

\* json.loads builds the dict left to right; a repeated key keeps the last value.
RECURSIVE JsonMembers(_, _)
JsonMembers(members, d) ==
    IF members = <<>> THEN d
    ELSE JsonMembers(Tail(members),
                     DictPut(d, Member(Head(members)).key, Member(Head(members)).val))

JsonLoads(m) == JsonMembers(SubSeq(m, 2, Len(m) - 1), EmptyDict)

\* re.IGNORECASE on the literal "city"
LowerCh(c) == IF c = "C" THEN "c" ELSE c
\* the class ["\s:]
IsSepCh(c) == c \in {"\"", " ", ":"}
\* the class [^",\s]
IsNameCh(c) == c \notin {"\"", ",", " "}

\* length of the longest run of characters satisfying the class, from position p
RECURSIVE RunLen(_, _, _)
RunLen(text, p, isSep) ==
    IF p > Len(text) THEN 0
    ELSE IF (IF isSep THEN IsSepCh(text[p]) ELSE IsNameCh(text[p]))
         THEN 1 + RunLen(text, p + 1, isSep)
         ELSE 0

\* the separator lengths with which city["\s:]+([^",\s]+) matches at position i
CityMatchSeps(text, i) ==
    IF /\ i + 3 <= Len(text)
       /\ LowerCh(text[i]) = "c" /\ text[i + 1] = "i"
       /\ text[i + 2] = "t" /\ text[i + 3] = "y"
    THEN {k \in 1..RunLen(text, i + 4, TRUE) :
             /\ i + 4 + k <= Len(text)
             /\ IsNameCh(text[i + 4 + k])}
    ELSE {}

\* re.search(r'city["\s:]+([^",\s]+)', content, re.IGNORECASE) and
\* city_match.group(1) if city_match else None
FallbackCity(text) ==
    LET starts == {i \in 1..Len(text) : CityMatchSeps(text, i) # {}}
    IN  IF starts = {} THEN None
        ELSE LET i == SetMin(starts)
                 k == SetMax(CityMatchSeps(text, i))
                 p == i + 4 + k
             IN  Str(SubSeq(text, p, p + RunLen(text, p, FALSE) - 1))

(* ------------------------ external outcomes ---------------------------- *)

\* Inbound message texts: characters are a letter or a blank.
MsgChars == {"a", " "}
Messages == {Str(m) : m \in SeqsUpTo(MsgChars, MaxMsgLen)}

\* An environment variable is unset (None), set to "" or set to a key.
KeyValues == {None, Str(<<>>), Str(<<"k">>)}

\* What query_interpreter.run(...) can do: throw, or return an object without
\* a content attribute, with content None, or with a text content.
NoResponse == [kind |-> "unset", lex |-> <<>>]
InterpRunOutcomes ==
    {[kind |-> k, lex |-> <<>>] : k \in {"throws", "nocontent", "nonstr"}}
    \cup {[kind |-> "text", lex |-> c] : c \in Contents}

\* What firecrawl.extract(...) can do: throw, or return a value that is not a
\* dict, or a dict with or without 'success' and 'data'; 'data' is a dict
\* (with or without 'properties') or something else.
RecordList(n) == [i \in 1..n |-> i]
NoRaw == [kind |-> "unset", success |-> "absent", data |-> "absent", props |-> <<>>]
ExtractOutcomes ==
    {[kind |-> k, success |-> "absent", data |-> "absent", props |-> <<>>] :
        k \in {"throws", "nondict"}}
    \cup {[kind |-> "dict", success |-> s, data |-> d, props |-> <<>>] :
            s \in {"absent", "false", "true"}, d \in {"absent", "nondict", "noprops"}}
    \cup {[kind |-> "dict", success |-> s, data |-> "props", props |-> RecordList(n)] :
            s \in {"absent", "false", "true"}, n \in 0..MaxProps}

\* What agent.run(...) can do: throw, or return an object without a content
\* attribute, or with a content that is None or a text.
SumChars == {"a", "*"}
NoAnalysis == [kind |-> "unset", content |-> None]
SumOutcomes ==
    {[kind |-> k, content |-> None] : k \in {"throws", "nocontent"}}
    \cup {[kind |-> "content", content |-> None]}
    \cup {[kind |-> "content", content |-> Str(c)] : c \in SeqsUpTo(SumChars, MaxSumLen)}

(* --------------------------- fixed replies ----------------------------- *)

MSG_MISSING_KEYS ==
    <<"Error: Missing API keys. Please set FIRECRAWL_API_KEY and OPENAI_API_KEY in your .env file.">>
MSG_NO_QUERY == <<"Please provide a search query!">>
MSG_NO_CITY ==
    <<"Couldn't determine which city you're interested in. Please specify a city.">>
MSG_ERROR ==
    <<"An error occurred while processing your request. Please try again later.">>
HEADER ==
    <<"\nPROPERTY RECOMMENDATIONS\n",
      "--------------------------------------------------\n">>

\* the default of params.get("max_price", 5.0), in crores
DEFAULT_MAX_PRICE == 5

(* ------------------------------ state ---------------------------------- *)

VARIABLES
    pc,                 \* position in generate_response / find_properties
    firecrawl_key,      \* os.getenv("FIRECRAWL_API_KEY")
    openai_key,         \* os.getenv("OPENAI_API_KEY")
    message_body,       \* the argument of generate_response
    constructed,        \* PropertyFindingAgent objects built in this request
    interpCalls,        \* query_interpreter.run calls in this request
    extractCalls,       \* firecrawl.extract calls in this request
    response,           \* interpret_user_query: what query_interpreter.run returned
    params,             \* generate_response: what interpret_user_query returned
    city, max_price, property_category, property_type,
    raw_response,       \* find_properties: what firecrawl.extract returned
    properties,         \* find_properties: the record list handed to the summarizer
    sumLog,             \* the record list of each agent.run call in this request
    callLog,            \* the external calls of this request, in the order made
    analysis,           \* find_properties: what agent.run returned
    property_results,   \* generate_response: what find_properties returned
    logged,             \* logging.error calls in this request
    raised,             \* where exceptions were raised in this request
    outcome,            \* "none", "returned" or "raised" (propagated to the caller)
    reply               \* the returned string, as a sequence of pieces

env == <<firecrawl_key, openai_key, message_body>>
calls == <<constructed, interpCalls, extractCalls, sumLog, callLog>>
interp == <<response, params>>
args == <<city, max_price, property_category, property_type>>
fetch == <<raw_response, properties, analysis, property_results>>
result == <<outcome, reply>>
vars == <<pc, env, calls, interp, args, fetch, logged, raised, result>>

Init ==
    /\ pc = "idle"
    /\ firecrawl_key = None /\ openai_key = None /\ message_body = Str(<<>>)
    /\ constructed = 0 /\ interpCalls = 0 /\ extractCalls = 0 /\ sumLog = <<>>
    /\ callLog = <<>>
    /\ response = NoResponse /\ params = EmptyDict
    /\ city = None /\ max_price = None
    /\ property_category = None /\ property_type = None
    /\ raw_response = NoRaw /\ properties = <<>>
    /\ analysis = NoAnalysis /\ property_results = None
    /\ logged = 0 /\ raised = {}
    /\ outcome = "none" /\ reply = <<>>

(* ---------------------- decisions of the code -------------------------- *)

\* variant: "and" in place of "or"
KeysMissingBoth(fk, ok) == ~Truthy(fk) /\ ~Truthy(ok)
\* line 336: if not firecrawl_key or not openai_key
KeysMissing(fk, ok) == ~Truthy(fk) \/ ~Truthy(ok)

\* variant: the message is stripped before the test
MessageMissingStripped(msg) == \A i \in 1..Len(msg.s) : msg.s[i] = " "
\* line 346: if not message_body
MessageMissing(msg) == ~Truthy(msg)

\* variant: only the presence of the key is tested
CityMissingKeyOnly(p) == "city" \notin DOMAIN p
\* line 352: if not params.get("city")
CityMissing(p) == ~Truthy(DictGet(p, "city", None))

\* lines 237-245: the dict the fallback branch builds around the matched city.
FallbackParams(text) ==
    [k \in {"city", "max_price", "property_category", "property_type"} |->
        CASE k = "city"              -> FallbackCity(text)
          [] k = "max_price"         -> Num(DEFAULT_MAX_PRICE)
          [] k = "property_category" -> Str(<<"Residential">>)
          [] k = "property_type"     -> Str(<<"Flat">>)]

\* variant: a decode failure falls back to the city pattern match
ParseResponseDecodeFallback(r) ==
    CASE r.kind = "nocontent" -> [status |-> "propagated", result |-> EmptyDict]
      [] r.kind = "nonstr"    -> [status |-> "absorbed", result |-> EmptyDict]
      [] OTHER ->
            IF BraceMatch(r.lex) # <<>> /\ JsonValid(BraceMatch(r.lex))
            THEN [status |-> "ok", result |-> JsonLoads(BraceMatch(r.lex))]
            ELSE [status |-> "ok", result |-> FallbackParams(Flatten(r.lex))]
\* variant: no try/except around the parsing
ParseResponseUncaught(r) ==
    CASE r.kind = "nocontent" -> [status |-> "propagated", result |-> EmptyDict]
      [] r.kind = "nonstr"    -> [status |-> "propagated", result |-> EmptyDict]
      [] OTHER ->
            LET m == BraceMatch(r.lex)
            IN  IF m # <<>>
                THEN IF JsonValid(m)
                     THEN [status |-> "ok", result |-> JsonLoads(m)]
                     ELSE [status |-> "propagated", result |-> EmptyDict]
                ELSE [status |-> "ok", result |-> FallbackParams(Flatten(r.lex))]
\* lines 229-249: the try/except of interpret_user_query applied to what run
\* returned: "ok" (a dict is returned), "absorbed" (an exception was caught
\* and {} returned) or "propagated" (the except clause itself raised).
ParseResponse(r) ==
    CASE r.kind = "nocontent" ->
            \* response.content raises in the try and again in the except clause
            [status |-> "propagated", result |-> EmptyDict]
      [] r.kind = "nonstr" ->
            \* re.search raises TypeError, caught
            [status |-> "absorbed", result |-> EmptyDict]
      [] OTHER ->
            LET m == BraceMatch(r.lex)
            IN  IF m # <<>>
                THEN IF JsonValid(m)
                     THEN [status |-> "ok", result |-> JsonLoads(m)]
                     ELSE [status |-> "absorbed", result |-> EmptyDict]
                ELSE [status |-> "ok", result |-> FallbackParams(Flatten(r.lex))]

\* variant: the success flag is not consulted
ExtractPropertiesAnySuccess(raw) ==
    IF raw.kind = "dict" /\ raw.data \in {"noprops", "props"}
    THEN [raises |-> FALSE, props |-> raw.props]
    ELSE [raises |-> FALSE, props |-> <<>>]
\* lines 105-108:
\* if isinstance(raw_response, dict) and raw_response.get('success'):
\*     properties = raw_response['data'].get('properties', [])
\* else: properties = []
ExtractProperties(raw) ==
    IF raw.kind = "dict" /\ raw.success = "true"
    THEN CASE raw.data = "absent"  -> [raises |-> TRUE, props |-> <<>>]
           [] raw.data = "nondict" -> [raises |-> TRUE, props |-> <<>>]
           [] raw.data = "noprops" -> [raises |-> FALSE, props |-> <<>>]
           [] OTHER                -> [raises |-> FALSE, props |-> raw.props]
    ELSE [raises |-> FALSE, props |-> <<>>]

\* f"{property_results}"
Format(v) == IF v.t = "str" THEN v.s ELSE <<"N", "o", "n", "e">>

\* variant: the report is left out of the reply
AssembleResponseNoBody(results) == HEADER \o <<"\n">>
\* lines 374-386: the reply
AssembleResponse(results) == HEADER \o Format(results) \o <<"\n">>

\* variant: the handler logs nothing
LogErrorSilent(n) == n
\* line 389: logging.error in the handler of generate_response
LogError(n) == n + 1

(* ------------------------------ actions -------------------------------- *)

Return(text) ==
    /\ pc' = "done"
    /\ outcome' = "returned"
    /\ reply' = text

Raise(place) ==
    /\ pc' = "gr_except"
    /\ raised' = raised \cup place
    /\ UNCHANGED result

\* generate_response is called (the loop of lines 397-402, or the gateway):
\* lines 328-334.
Request ==
    /\ pc \in {"idle", "done"}
    /\ \E fk \in KeyValues, ok \in KeyValues, msg \in Messages :
          /\ firecrawl_key' = fk
          /\ openai_key' = ok
          /\ message_body' = msg
    /\ pc' = "gr_keys"
    /\ constructed' = 0 /\ interpCalls' = 0 /\ extractCalls' = 0 /\ sumLog' = <<>>
    /\ callLog' = <<>>
    /\ response' = NoResponse /\ params' = EmptyDict
    /\ city' = None /\ max_price' = None
    /\ property_category' = None /\ property_type' = None
    /\ raw_response' = NoRaw /\ properties' = <<>>
    /\ analysis' = NoAnalysis /\ property_results' = None
    /\ logged' = 0 /\ raised' = {}
    /\ outcome' = "none" /\ reply' = <<>>

\* lines 336-337
CheckKeys ==
    /\ pc = "gr_keys"
    /\ IF KeysMissing(firecrawl_key, openai_key)
       THEN Return(MSG_MISSING_KEYS)
       ELSE pc' = "gr_construct" /\ UNCHANGED result
    /\ UNCHANGED <<env, calls, interp, args, fetch, logged, raised>>

\* lines 340-344: PropertyFindingAgent(...) returns or throws
Construct ==
    /\ pc = "gr_construct"
    /\ \E throws \in BOOLEAN :
          IF throws
          THEN Raise({"construct"}) /\ UNCHANGED constructed
          ELSE /\ constructed' = constructed + 1
               /\ pc' = "gr_message"
               /\ UNCHANGED <<raised, result>>
    /\ UNCHANGED <<env, interpCalls, extractCalls, sumLog, callLog, interp, args,
                   fetch, logged>>

\* lines 346-347
CheckMessage ==
    /\ pc = "gr_message"
    /\ IF MessageMissing(message_body)
       THEN Return(MSG_NO_QUERY)
       ELSE pc' = "gr_interpret" /\ UNCHANGED result
    /\ UNCHANGED <<env, calls, interp, args, fetch, logged, raised>>

\* line 350 and interpret_user_query, lines 204-249
InterpretUserQuery ==
    /\ pc = "gr_interpret"
    /\ interpCalls' = interpCalls + 1
    /\ callLog' = Append(callLog, "interpret")
    /\ \E r \in InterpRunOutcomes :
          IF r.kind = "throws"
          THEN \* line 206 is outside the try: the exception leaves the method
               Raise({"interp_call"}) /\ UNCHANGED interp
          ELSE LET o == ParseResponse(r)
               IN  /\ response' = r
                   /\ CASE o.status = "propagated" ->
                             Raise({"parse", "parse_handler"}) /\ UNCHANGED params
                        [] o.status = "absorbed" ->
                             /\ params' = o.result
                             /\ raised' = raised \cup {"parse"}
                             /\ pc' = "gr_city"
                             /\ UNCHANGED result
                        [] OTHER ->
                             /\ params' = o.result
                             /\ pc' = "gr_city"
                             /\ UNCHANGED <<raised, result>>
    /\ UNCHANGED <<env, constructed, extractCalls, sumLog, args, fetch, logged>>

\* lines 352-358
CheckCity ==
    /\ pc = "gr_city"
    /\ IF CityMissing(params)
       THEN Return(MSG_NO_CITY) /\ UNCHANGED args
       ELSE /\ city' = DictGet(params, "city", None)
            /\ max_price' = DictGet(params, "max_price", Num(DEFAULT_MAX_PRICE))
            /\ property_category' =
                   DictGet(params, "property_category", Str(<<"Residential">>))
            /\ property_type' = DictGet(params, "property_type", Str(<<"Flat">>))
            /\ pc' = "fp_extract"
            /\ UNCHANGED result
    /\ response' = NoResponse
    /\ UNCHANGED <<env, calls, params, fetch, logged, raised>>

\* find_properties, lines 74-101: city.lower(), then firecrawl.extract
ExtractCall ==
    /\ pc = "fp_extract"
    /\ IF city.t # "str"
       THEN Raise({"lower"}) /\ UNCHANGED <<extractCalls, callLog, raw_response>>
       ELSE /\ extractCalls' = extractCalls + 1
            /\ callLog' = Append(callLog, "extract")
            /\ \E r \in ExtractOutcomes :
                  IF r.kind = "throws"
                  THEN Raise({"extract_call"}) /\ UNCHANGED raw_response
                  ELSE /\ raw_response' = r
                       /\ pc' = "fp_handle"
                       /\ UNCHANGED <<raised, result>>
    /\ UNCHANGED <<env, constructed, interpCalls, sumLog, interp, args,
                   properties, analysis, property_results, logged>>

\* find_properties, lines 105-108
HandleExtraction ==
    /\ pc = "fp_handle"
    /\ LET o == ExtractProperties(raw_response)
       IN  IF o.raises
           THEN Raise({"handle"}) /\ UNCHANGED properties
           ELSE /\ properties' = o.props
                /\ pc' = "fp_summarize"
                /\ UNCHANGED <<raised, result>>
    /\ UNCHANGED <<env, calls, interp, args, raw_response, analysis,
                   property_results, logged>>

\* find_properties, lines 113-145: agent.run on the record list
SummarizeCall ==
    /\ pc = "fp_summarize"
    /\ sumLog' = Append(sumLog, properties)
    /\ callLog' = Append(callLog, "summarize")
    /\ \E r \in SumOutcomes :
          IF r.kind = "throws"
          THEN Raise({"summarize_call"}) /\ UNCHANGED analysis
          ELSE /\ analysis' = r
               /\ pc' = "fp_return"
               /\ UNCHANGED <<raised, result>>
    /\ UNCHANGED <<env, constructed, interpCalls, extractCalls, interp, args,
                   raw_response, properties, property_results, logged>>

\* find_properties, line 147: return analysis.content
ReturnAnalysis ==
    /\ pc = "fp_return"
    /\ IF analysis.kind = "nocontent"
       THEN Raise({"content"}) /\ UNCHANGED property_results
       ELSE /\ property_results' = analysis.content
            /\ pc' = "gr_format"
            /\ UNCHANGED <<raised, result>>
    /\ UNCHANGED <<env, calls, interp, args, raw_response, properties, analysis, logged>>

\* variant: line 371 is live, get_location_trends(city) is called
AfterFetchWithTrends(log) == Append(log, "trends")
\* lines 368-371: the call of get_location_trends is commented out
AfterFetch(log) == log

\* lines 368-387
FormatResponse ==
    /\ pc = "gr_format"
    /\ callLog' = AfterFetch(callLog)
    /\ Return(AssembleResponse(property_results))
    /\ UNCHANGED <<env, constructed, interpCalls, extractCalls, sumLog, interp, args,
                   fetch, logged, raised>>

\* variant: the exception is not caught and leaves generate_response
HandlerReraises ==
    /\ pc' = "done"
    /\ outcome' = "raised"
    /\ UNCHANGED <<reply, logged>>
\* lines 389-390: the handler logs and returns the generic error string
HandlerReturns ==
    /\ logged' = LogError(logged)
    /\ Return(MSG_ERROR)

\* lines 388-390: except Exception
TopLevelHandler ==
    /\ pc = "gr_except"
    /\ HandlerReturns
    /\ UNCHANGED <<env, calls, interp, args, fetch, raised>>

Next ==
    \/ Request
    \/ CheckKeys
    \/ Construct
    \/ CheckMessage
    \/ InterpretUserQuery
    \/ CheckCity
    \/ ExtractCall
    \/ HandleExtraction
    \/ SummarizeCall
    \/ ReturnAnalysis
    \/ FormatResponse
    \/ TopLevelHandler

Spec == Init /\ [][Next]_vars

(* ------------------------------ claims --------------------------------- *)

BothKeysPresent ==
    /\ firecrawl_key \notin {None, Str(<<>>)}
    /\ openai_key \notin {None, Str(<<>>)}

NoExternalCall == interpCalls = 0 /\ extractCalls = 0 /\ sumLog = <<>>

InFlight == pc \notin {"idle", "done"}

\* C1: generate_response never propagates an exception: whatever the agent
\* constructor, the interpretation call, the extraction call and the
\* summarization call do, every request in flight can take a step and a
\* finished request has returned a non-empty string.
C1_AlwaysReturnsString ==
    /\ outcome # "raised"
    /\ InFlight => ENABLED Next
    /\ pc = "done" =>
          /\ outcome = "returned"
          /\ Len(reply) > 0
          /\ \A i \in 1..Len(reply) : reply[i] \in STRING

\* C1 witness: an exception was raised and the request still returned a string.
C1_Witness ==
    /\ pc = "done"
    /\ "summarize_call" \in raised
    /\ outcome = "returned"
    /\ reply = MSG_ERROR

\* C2: when either key is unset or empty, no agent is constructed, no external
\* call is made and the reply is the missing-keys message, for every message.
C2_MissingKeys ==
    (InFlight \/ pc = "done") /\ ~BothKeysPresent =>
        /\ constructed = 0
        /\ NoExternalCall
        /\ pc \in {"gr_keys", "done"}
        /\ pc = "done" => outcome = "returned" /\ reply = MSG_MISSING_KEYS

\* C2 witness: one key set, the other empty, an empty message.
C2_Witness ==
    /\ pc = "done"
    /\ firecrawl_key = Str(<<"k">>)
    /\ openai_key = Str(<<>>)
    /\ message_body = Str(<<>>)
    /\ reply = MSG_MISSING_KEYS

IsBlank(msg) == \A i \in 1..Len(msg.s) : msg.s[i] = " "

\* C3 as stated: with both keys present, an empty or whitespace-only message
\* gets the no-query message and no external call is made (read with the
\* agent constructed without exception).
C3_Original ==
    (InFlight \/ pc = "done") /\ BothKeysPresent /\ IsBlank(message_body)
        /\ "construct" \notin raised =>
        /\ NoExternalCall
        /\ pc = "done" => reply = MSG_NO_QUERY

\* C3 amended: with both keys present, an empty message makes no external
\* call and, when the agent was constructed without exception, gets the
\* no-query message (the generic error string when construction threw); a
\* non-empty message of blanks is not rejected: once the agent is constructed
\* it is handed to the interpretation call.
C3_EmptyMessage ==
    /\ (InFlight \/ pc = "done") /\ BothKeysPresent /\ message_body = Str(<<>>) =>
          /\ NoExternalCall
          /\ pc = "done" =>
                /\ outcome = "returned"
                /\ reply = (IF "construct" \in raised THEN MSG_ERROR ELSE MSG_NO_QUERY)
    /\ pc = "done" /\ BothKeysPresent /\ message_body # Str(<<>>)
          /\ "construct" \notin raised =>
          /\ interpCalls = 1
          /\ reply # MSG_NO_QUERY

\* C3 witness: both keys present, agent constructed, empty message rejected.
C3_Witness ==
    /\ pc = "done"
    /\ BothKeysPresent
    /\ constructed = 1
    /\ message_body = Str(<<>>)
    /\ reply = MSG_NO_QUERY

InterpreterReturned ==
    /\ interpCalls = 1
    /\ raised \cap {"interp_call", "parse_handler"} = {}

CityAbsentOrEmpty ==
    \/ "city" \notin DOMAIN params
    \/ params["city"] \in {None, Str(<<>>), Num(0)}

\* C4: when the interpreter's result has no city key, or an empty or null
\* city, the reply is the no-city message and neither the extraction call
\* nor the summarization call is made.
C4_NoCity ==
    InterpreterReturned /\ CityAbsentOrEmpty =>
        /\ pc \in {"gr_city", "done"}
        /\ extractCalls = 0
        /\ sumLog = <<>>
        /\ pc = "done" => outcome = "returned" /\ reply = MSG_NO_CITY

\* C4 witness: the empty mapping returned after a parse failure.
C4_Witness ==
    /\ pc = "done"
    /\ InterpreterReturned
    /\ "parse" \in raised
    /\ params = EmptyDict
    /\ reply = MSG_NO_CITY

\* C5 as stated: a request in which any exception was raised ends with one
\* logged error and the generic error string.
C5_Original ==
    pc = "done" /\ raised # {} => logged = 1 /\ reply = MSG_ERROR

\* C5 amended: an exception that leaves the agent's methods (construction,
\* the interpretation call, the extraction call, the handling of its result,
\* the summarization call or the reading of its content) ends the request with
\* exactly one logged error and the generic error string; an exception while
\* parsing the interpreter's output is caught inside interpret_user_query and
\* ends the request with the no-city message and no logged error; without an
\* exception nothing is logged and the generic error string is not returned.
C5_ExceptionHandling ==
    pc = "done" =>
        /\ raised \ {"parse"} # {} => logged = 1 /\ reply = MSG_ERROR
        /\ raised = {"parse"} => logged = 0 /\ reply = MSG_NO_CITY
        /\ raised = {} => logged = 0 /\ reply # MSG_ERROR

\* C5 witness: the extraction client threw.
C5_Witness ==
    /\ pc = "done"
    /\ raised = {"extract_call"}
    /\ logged = 1
    /\ reply = MSG_ERROR

ExtractionReturned == raw_response.kind # "unset"

ReportsSuccess == raw_response.kind = "dict" /\ raw_response.success = "true"

\* C6: in find_properties, an extraction result that does not report
\* success=true (success false or missing, or no mapping at all) raises
\* nothing, gives the empty property list, and the summarizer is still called
\* exactly once, with the empty list; records are used only on success=true.
C6_FailedExtraction ==
    /\ ExtractionReturned /\ ~ReportsSuccess /\ pc # "fp_handle" =>
          /\ "handle" \notin raised
          /\ properties = <<>>
          /\ IF pc = "fp_summarize" THEN sumLog = <<>> ELSE sumLog = << <<>> >>
    /\ properties # <<>> => ReportsSuccess /\ properties = raw_response.props

\* C6 witness: success=false with records in the payload; the summarizer ran
\* once on the empty list and the request returned its report.
C6_Witness ==
    /\ pc = "done"
    /\ raw_response.kind = "dict"
    /\ raw_response.success = "false"
    /\ raw_response.props # <<>>
    /\ sumLog = << <<>> >>
    /\ raised = {}
    /\ outcome = "returned"

\* C7: when the extraction call and the summarization call complete and the
\* summarization returns a text content, the reply is the fixed header followed
\* by that content, unmodified and untruncated, and a closing line break.
C7_HeaderThenContent ==
    pc = "done" /\ Len(sumLog) = 1 /\ analysis.kind = "content"
        /\ analysis.content.t = "str" =>
        /\ BothKeysPresent
        /\ message_body # Str(<<>>)
        /\ ~CityAbsentOrEmpty
        /\ outcome = "returned"
        /\ reply = HEADER \o analysis.content.s \o <<"\n">>

\* C7 witness: a successful extraction with records and a non-empty content.
C7_Witness ==
    /\ pc = "done"
    /\ ReportsSuccess
    /\ Len(properties) = MaxProps
    /\ analysis.kind = "content"
    /\ analysis.content = Str(<<"*">>)
    /\ reply = HEADER \o <<"*", "\n">>

AllKeys == {"city", "max_price", "property_category", "property_type"}

HardDefaults(p) ==
    /\ DOMAIN p = AllKeys
    /\ p["max_price"] = Num(5)
    /\ p["property_category"] = Str(<<"Residential">>)
    /\ p["property_type"] = Str(<<"Flat">>)

BraceLocated == response.kind = "text" /\ BraceMatch(response.lex) # <<>>

DecodeFails == BraceLocated /\ ~JsonValid(BraceMatch(response.lex))

\* C8 as stated: a brace-delimited substring is located and does not decode;
\* the interpreter returns the pattern-matched city with the hard defaults.
C8_Original ==
    pc = "gr_city" /\ DecodeFails =>
        /\ HardDefaults(params)
        /\ params["city"] = FallbackCity(Flatten(response.lex))

\* C8 amended: the secondary city-name pattern match with the hard defaults
\* max_price=5.0, "Residential", "Flat" is used only when no brace-delimited
\* substring is located in the output (the city is the matched name, or None
\* when nothing matches); when a brace-delimited substring is located and
\* does not decode, the exception is caught and the empty mapping is returned.
C8_FallbackOnlyWithoutBraces ==
    pc = "gr_city" /\ response.kind = "text" =>
        /\ DecodeFails => params = EmptyDict /\ "parse" \in raised
        /\ ~BraceLocated =>
              /\ HardDefaults(params)
              /\ params["city"] = None
                   \/ /\ params["city"].t = "str"
                      /\ Len(params["city"].s) > 0
                      /\ \A i \in 1..Len(params["city"].s) :
                            params["city"].s[i] \notin {"\"", ",", " "}
              /\ params["city"] = None <=>
                    \A i \in 1..Len(response.lex) :
                        response.lex[i] \notin {"CITY_PUNE", "CITY_NULL", "PLAIN_CITY"}
        /\ HardDefaults(params) => ~BraceLocated

\* C8 witness: braces located, decoding fails, the text names a city, and the
\* result is the empty mapping.
C8_Witness ==
    /\ pc = "gr_city"
    /\ DecodeFails
    /\ FallbackCity(Flatten(response.lex)) = Str(Pune)
    /\ params = EmptyDict

\* C9 as stated: interpret_user_query never raises; once called, no exception
\* leaves it, whether thrown by the text-generation call or while parsing.
C9_Original ==
    interpCalls = 1 => raised \cap {"interp_call", "parse_handler"} = {}

\* C9 amended: interpret_user_query returns the empty mapping, instead of
\* raising, on an exception while parsing an output whose content can be read
\* (the content is no text, or the brace-delimited substring does not decode);
\* an exception thrown by the text-generation call itself, or an output
\* without content, is not absorbed: it leaves the method and reaches the
\* top-level handler of generate_response.
C9_ParseFailureAbsorbed ==
    /\ response.kind \in {"nonstr", "text"} =>
          /\ pc = "gr_city"
          /\ "parse_handler" \notin raised
          /\ response.kind = "nonstr" \/ DecodeFails =>
                params = EmptyDict /\ "parse" \in raised
    /\ response.kind = "nocontent" =>
          /\ pc \in {"gr_except", "done"}
          /\ {"parse", "parse_handler"} \subseteq raised
          /\ pc = "done" => reply = MSG_ERROR
    /\ "interp_call" \in raised =>
          /\ pc \in {"gr_except", "done"}
          /\ params = EmptyDict
          /\ extractCalls = 0
          /\ pc = "done" => reply = MSG_ERROR /\ logged = 1

\* C9 witness: the content is no text, the TypeError is caught and the empty
\* mapping returned.
C9_Witness ==
    /\ pc = "gr_city"
    /\ response.kind = "nonstr"
    /\ "parse" \in raised
    /\ params = EmptyDict

FetcherInvoked ==
    pc \in {"fp_extract", "fp_handle", "fp_summarize", "fp_return", "gr_format"}

\* C10: whenever the Listing Fetcher is invoked, max_price is a number (5.0
\* when the interpreter gave none or null), property_category is
\* "Residential" and property_type "Flat" when absent or null; none is null.
C10_DefaultsSubstituted ==
    FetcherInvoked =>
        /\ max_price.t = "num"
        /\ property_category # None
        /\ property_type # None
        /\ "max_price" \notin DOMAIN params \/ params["max_price"] = None =>
              max_price = Num(5)
        /\ "property_category" \notin DOMAIN params
              \/ params["property_category"] = None =>
              property_category = Str(<<"Residential">>)
        /\ "property_type" \notin DOMAIN params \/ params["property_type"] = None =>
              property_type = Str(<<"Flat">>)

PipelineOrder == <<"interpret", "extract", "summarize">>

\* C11: within one request the external calls are made at most once each and
\* only in the order interpretation, extraction, summarization; the
\* extraction call is made only after the interpreter returned a non-empty
\* city, the summarization call only after the extraction call returned; a
\* failed call is not repeated and nothing is called after an exception
\* reached the handler; get_location_trends is never called.
C11_CallOrder ==
    /\ Len(callLog) <= 3
    /\ callLog = SubSeq(PipelineOrder, 1, Len(callLog))
    /\ interpCalls = (IF Len(callLog) >= 1 THEN 1 ELSE 0)
    /\ extractCalls = (IF Len(callLog) >= 2 THEN 1 ELSE 0)
    /\ Len(sumLog) = (IF Len(callLog) >= 3 THEN 1 ELSE 0)
    /\ Len(callLog) >= 2 =>
          /\ InterpreterReturned
          /\ raised \cap {"construct", "lower"} = {}
          /\ ~CityAbsentOrEmpty
          /\ city = params["city"]
    /\ Len(callLog) >= 3 =>
          /\ ExtractionReturned
          /\ raised \cap {"extract_call", "handle"} = {}
    /\ "interp_call" \in raised \/ "parse_handler" \in raised => Len(callLog) = 1
    /\ "extract_call" \in raised \/ "handle" \in raised => Len(callLog) = 2
    /\ \A i \in 1..Len(callLog) : callLog[i] # "trends"

\* C11 witness: all three calls were made, the summarization call threw, and
\* the request ended without any call being repeated.
C11_Witness ==
    /\ pc = "done"
    /\ callLog = PipelineOrder
    /\ raised = {"summarize_call"}
    /\ reply = MSG_ERROR
====
